---- MODULE Spec2Model ----
(***************************************************************************)
(* A model of the NotTrcpTwitterBot follower-tracking programs:            *)
(*   lib/lock.py        socket-bind lock (Lock.lock, get_lock_owner,       *)
(*                      monitor)                                           *)
(*   lib/clients_db.py  client registry (ClientDb)                         *)
(*   findclients.py, trackfollowers.py, trackingreport.py  the programs    *)
(*                                                                         *)
(* Specifications that share the module:                                   *)
(*   Spec        processes racing for the lock and touching the registry   *)
(*               and follower-snapshot files                               *)
(*   SpecFair    Spec with fair scheduling of the steps of Lock.lock       *)
(*   SpecReenter callers of Lock.lock that call it a second time           *)
(*   SpecNotify  successive runs of the notification pass                  *)
(*   SpecRace    the notification pass beside the report writer            *)
(*   SpecPass    one notification pass with the failures of its turns      *)
(*   SpecMerge   ClientDb.merge_clients applied to bounded registries      *)
(*   SpecDiff    FollowerTracker.compare_followers on bounded lists        *)
(*   SpecTrack   the detection run over its clients                        *)
(*   SpecCycle   one turn of the detection run with its files              *)
(*   SpecMake    PhraseMaker.make on bounded templates                     *)
(*   SpecReg     load_clients and active_clients on bounded registries     *)
(*   SpecFresh   active_clients on registries holding search's records     *)
(*   SpecFile    a file saved by one process and read by another           *)
(***************************************************************************)
EXTENDS Integers, Sequences, FiniteSets, TLC

\* ------------------------------------------------------------------ bounds
NumProcs == 2

Procs == 1..NumProcs

NoProc == 0

\* ---------------------------------------------------------------- lock.py
VARIABLES
    pc,            \* position of each process in its program
    kind,          \* which program a process runs
    wait,          \* Lock.wait
    process_name,  \* Lock.process_name, as passed to Lock.lock
    attempted,     \* local variable "attempted" of Lock.lock
    retried,       \* history: the process made a second bind attempt
    bound,         \* processes whose server socket is bound to the port
    listening,     \* processes whose bound socket listens (monitor started)
    conn,          \* holder a client socket of get_lock_owner is connected to
    lock_owner,    \* result of get_lock_owner
    outcome,       \* how Lock.lock or the program ended
    lastIO         \* the latest access to the registry or a snapshot file

lockVars == <<pc, kind, wait, process_name, attempted, retried, bound,
              listening, conn, lock_owner, outcome, lastIO>>

VARIABLES
    now,          \* the wall clock, in ticks
    reportFile,   \* ../data/<screen_name>_report.json of each client
    gateFile,     \* ../data/last_report.json: screen_name -> time of last DM
    last_report,  \* TrackingReporter.last_report of the running pass
    rpc,          \* position of the notification process
    idx,          \* index of the for loop of main over screen_names
    notweet,      \* options.notweet
    send_result,  \* what the latest turn of the loop did for its client
    sent          \* history: DMs delivered for the client's current report

notifyVars == <<now, reportFile, gateFile, last_report, rpc, idx,
                notweet, send_result, sent>>

\* --------------------------------------------------- ClientDb.merge_clients
VARIABLES
    clients,      \* argument clients of merge_clients: the loaded registry
    new_clients,  \* argument new_clients: the followers found by search()
    merged,       \* merge_clients(clients, new_clients)
    remerged,     \* merge_clients(merged, new_clients)
    mpc           \* how far the merges have got

mergeVars == <<clients, new_clients, merged, remerged, mpc>>

\* ------------------------------------ FollowerTracker.compare_followers
VARIABLES
    followers,    \* argument followers: the ids get_followers returned
    snapshot,     \* ../data/<screen_name>_followers.json
    changes,      \* compare_followers(followers, screen_name)
    reverse,      \* the comparison with the two lists in each other's place
    dpc           \* how far the comparisons have got

diffVars == <<followers, snapshot, changes, reverse, dpc>>

\* -------------------------------------------------- trackfollowers.main
VARIABLES
    tpc,          \* position of the detection process in main
    tcur,         \* index of the for loop of main over screen_names
    status,       \* options.status
    snapFile,     \* state of each client's snapshot file
    tchanges,     \* local variable changes of main
    processed,    \* history: the clients whose turn of the loop has ended
    tregistry,    \* ../data/clients.json as the tracker finds it
    tclients,     \* FollowerTracker.clients
    fetched,      \* history: the clients get_followers was called for
    tlog          \* history: the file operations of the current turn

trackVars == <<tpc, tcur, status, snapFile, tchanges, processed, tregistry,
               tclients, fetched, tlog>>

\* ------------------------------------------------------ PhraseMaker.make
VARIABLES
    template,            \* argument template
    quantity,            \* argument quantity
    vocabulary,          \* PhraseMaker.vocabulary
    substitution_max,    \* PhraseMaker.substitution_max
    result,              \* local variable result
    substitution_count,  \* local variable substitution_count
    kpc                  \* position in make: in the loop, returned, raised

makeVars == <<template, quantity, vocabulary, substitution_max, result,
              substitution_count, kpc>>

\* ---------------------------------- ClientDb.load_clients, active_clients
VARIABLES
    clientFile,   \* ../data/clients.json
    client_db,    \* what load_clients gave its caller
    today,        \* datetime.now(), in ticks
    active,       \* active_clients(client_db)
    gpc           \* how far the registry calls have got

regVars == <<clientFile, client_db, today, active, gpc>>

\* ------------------------------------- save_clients, save_compare_report
VARIABLES
    content,      \* what each file holds on disk
    wpc,          \* position of the process that saves each file
    seen          \* what the latest open-and-read of each file found

fileVars == <<content, wpc, seen>>

\* ------------------------------------------- trackingreport.main, the loop
VARIABLES
    ppc,          \* position of the notification process in main
    pcur,         \* index of the for loop of main over screen_names
    happened,     \* history: what the turn of each client came to
    gate          \* history: what save_last_report_time did

passVars == <<ppc, pcur, happened, gate>>

\* ------------------- trackingreport.main beside save_compare_report
VARIABLES
    report_data,  \* local variable report_data of main: what json.load gave
    fresh,        \* history: the report file was written after its last read
    delivered     \* history: a DM for the report now on disk was delivered

raceVars == <<report_data, fresh, delivered>>

\* ------------------------- trackfollowers.main, one turn with its files
VARIABLES
    before,       \* history: the snapshot file as the turn found it
    reportStore,  \* ../data/<screen_name>_report.json
    replaced      \* history: save_followers of this turn wrote the snapshot

cycleVars == <<before, reportStore, replaced>>

vars == <<lockVars, notifyVars, mergeVars, diffVars, trackVars, makeVars,
          regVars, fileVars, passVars, raceVars, cycleVars>>

notLock ==
    <<notifyVars, mergeVars, diffVars, trackVars, makeVars, regVars,
      fileVars, passVars,
      raceVars, cycleVars>>

notNotify ==
    <<lockVars, mergeVars, diffVars, trackVars, makeVars, regVars,
      fileVars, passVars,
      raceVars, cycleVars>>

notMerge ==
    <<lockVars, notifyVars, diffVars, trackVars, makeVars, regVars,
      fileVars, passVars,
      raceVars, cycleVars>>

notDiff ==
    <<lockVars, notifyVars, mergeVars, trackVars, makeVars, regVars,
      fileVars, passVars,
      raceVars, cycleVars>>

notTrack ==
    <<lockVars, notifyVars, mergeVars, diffVars, makeVars, regVars,
      fileVars, passVars,
      raceVars, cycleVars>>

notMake ==
    <<lockVars, notifyVars, mergeVars, diffVars, trackVars, regVars,
      fileVars, passVars,
      raceVars, cycleVars>>

notReg ==
    <<lockVars, notifyVars, mergeVars, diffVars, trackVars, makeVars,
      fileVars, passVars,
      raceVars, cycleVars>>

notFile ==
    <<lockVars, notifyVars, mergeVars, diffVars, trackVars, makeVars, regVars,
      passVars,
      raceVars, cycleVars>>

notPass ==
    <<lockVars, notifyVars, mergeVars, diffVars, trackVars, makeVars, regVars,
      fileVars,
      raceVars, cycleVars>>

\* What the notification pass and the report writer beside it leave alone
notRace ==
    <<lockVars, mergeVars, diffVars, trackVars, makeVars, regVars, fileVars,
      passVars, cycleVars>>

\* What a turn of the detection loop, taken with its files, leaves alone
notCycle ==
    <<lockVars, notifyVars, mergeVars, trackVars, makeVars, regVars, fileVars,
      passVars, raceVars>>

Kinds == {"client", "finder", "reporter", "tracker"}

\* A "client" is any caller of Lock.lock: its description and wait mode are free.
ClientNames == {"tracker", "another process"}

FinderName == "findclients.py"

NoOwner == [process_name |-> "", pid |-> 0]

NoIO == [who |-> NoProc, file |-> "", op |-> "", holders |-> {}]

\* os.getpid(): distinct for each process
getpid(p) == 1233 + p

\* monitor(): the response sent to a process that connects to the holder h
monitor(h) == [process_name |-> process_name[h], pid |-> getpid(h)]

Holds(p) == p \in bound

Alive(p) == pc[p] \notin {"init", "exited"}

InitLock ==
    /\ pc = [p \in Procs |-> "init"]
    /\ kind = [p \in Procs |-> "client"]
    /\ wait = [p \in Procs |-> FALSE]
    /\ process_name = [p \in Procs |-> "another process"]
    /\ attempted = [p \in Procs |-> FALSE]
    /\ retried = [p \in Procs |-> FALSE]
    /\ bound = {}
    /\ listening = {}
    /\ conn = [p \in Procs |-> NoProc]
    /\ lock_owner = [p \in Procs |-> NoOwner]
    /\ outcome = [p \in Procs |-> "none"]
    /\ lastIO = NoIO

\* Lock.__init__ and the entry of Lock.lock, with the arguments each program
\* passes.  trackfollowers.py never constructs a Lock or a ClientDb.
StartClient(p) ==
    /\ pc[p] = "init"
    /\ \E w \in BOOLEAN, d \in ClientNames :
          /\ wait' = [wait EXCEPT ![p] = w]
          /\ process_name' = [process_name EXCEPT ![p] = d]
    /\ kind' = [kind EXCEPT ![p] = "client"]
    /\ pc' = [pc EXCEPT ![p] = "bind"]
    /\ UNCHANGED <<attempted, retried, bound, listening, conn, lock_owner,
                   outcome, lastIO>>
    /\ UNCHANGED notLock

StartFinder(p) ==
    /\ pc[p] = "init"
    /\ wait' = [wait EXCEPT ![p] = TRUE]
    /\ process_name' = [process_name EXCEPT ![p] = FinderName]
    /\ kind' = [kind EXCEPT ![p] = "finder"]
    /\ pc' = [pc EXCEPT ![p] = "bind"]
    /\ UNCHANGED <<attempted, retried, bound, listening, conn, lock_owner,
                   outcome, lastIO>>
    /\ UNCHANGED notLock

StartReporterUnlocked(p) ==
    /\ pc[p] = "init"
    /\ kind' = [kind EXCEPT ![p] = "reporter"]
    /\ pc' = [pc EXCEPT ![p] = "load_clients"]
    /\ UNCHANGED <<wait, process_name, attempted, retried, bound, listening,
                   conn, lock_owner, outcome, lastIO>>
    /\ UNCHANGED notLock

\* trackingreport.main, line 169: ClientDb() with its defaults
StartReporter(p) ==
    /\ pc[p] = "init"
    /\ wait' = [wait EXCEPT ![p] = TRUE]
    /\ process_name' = [process_name EXCEPT ![p] = "another process"]
    /\ kind' = [kind EXCEPT ![p] = "reporter"]
    /\ pc' = [pc EXCEPT ![p] = "bind"]
    /\ UNCHANGED <<attempted, retried, bound, listening, conn, lock_owner,
                   outcome, lastIO>>
    /\ UNCHANGED notLock

StartTracker(p) ==
    /\ pc[p] = "init"
    /\ kind' = [kind EXCEPT ![p] = "tracker"]
    /\ pc' = [pc EXCEPT ![p] = "load_clients"]
    /\ UNCHANGED <<wait, process_name, attempted, retried, bound, listening,
                   conn, lock_owner, outcome, lastIO>>
    /\ UNCHANGED notLock

\* mutant of BindSucceeds: the port can be bound again while it is bound
BindAlways(p) == TRUE

\* mutant of BindSucceeds: the binding of the process itself is no obstacle
BindReentrant(p) == bound \subseteq {p}

\* serversocket.bind(('localhost', port)): the platform lets one socket bind
\* the port; a second bind raises OSError and control enters the handler.
BindSucceeds(p) == bound = {}

TryBind(p) ==
    /\ pc[p] = "bind"
    /\ attempted' = [attempted EXCEPT ![p] = TRUE]
    /\ retried' = [retried EXCEPT ![p] = attempted[p]]
    /\ IF BindSucceeds(p)
          THEN /\ bound' = bound \cup {p}
               /\ pc' = [pc EXCEPT ![p] = "listen"]
          ELSE /\ bound' = bound
               /\ pc' = [pc EXCEPT ![p] = "connect"]
    /\ UNCHANGED <<kind, wait, process_name, listening, conn, lock_owner,
                   outcome, lastIO>>
    /\ UNCHANGED notLock

\* serversocket.listen(5); start_monitor(...); return True
Listen(p) ==
    /\ pc[p] = "listen"
    /\ listening' = listening \cup {p}
    /\ outcome' = [outcome EXCEPT ![p] = "acquired"]
    /\ pc' = [pc EXCEPT ![p] = IF kind[p] = "client" THEN "held"
                                                     ELSE "load_clients"]
    /\ UNCHANGED <<kind, wait, process_name, attempted, retried, bound, conn,
                   lock_owner, lastIO>>
    /\ UNCHANGED notLock

\* get_lock_owner, clientsocket.connect: refused unless a socket listens on
\* the port.  The call is made inside the OSError handler of Lock.lock, so a
\* ConnectionRefusedError leaves Lock.lock whatever the wait mode.
Connect(p) ==
    /\ pc[p] = "connect"
    /\ IF listening # {}
          THEN /\ \E h \in listening : conn' = [conn EXCEPT ![p] = h]
               /\ pc' = [pc EXCEPT ![p] = "recv"]
               /\ outcome' = outcome
          ELSE /\ conn' = conn
               /\ pc' = [pc EXCEPT ![p] = "raised"]
               /\ outcome' = [outcome EXCEPT ![p] = "ConnectionRefusedError"]
    /\ UNCHANGED <<kind, wait, process_name, attempted, retried, bound,
                   listening, lock_owner, lastIO>>
    /\ UNCHANGED notLock

\* mutant of get_lock_owner: the inquirer reports its own identity
get_lock_owner_self(p) == [process_name |-> process_name[p], pid |-> getpid(p)]

\* What get_lock_owner returns once the holder's monitor thread has answered.
get_lock_owner(p) == monitor(conn[p])

\* get_lock_owner, recv and json.loads, then the rest of the handler: log the
\* message, sleep and retry when waiting, otherwise leave the loop and
\* raise Exception(message).  When the holder has gone, recv yields no data
\* and json.loads raises.
Recv(p) ==
    /\ pc[p] = "recv"
    /\ IF conn[p] \in listening
          THEN /\ lock_owner' = [lock_owner EXCEPT ![p] = get_lock_owner(p)]
               /\ IF wait[p]
                     THEN /\ pc' = [pc EXCEPT ![p] = "sleep"]
                          /\ outcome' = outcome
                     ELSE /\ pc' = [pc EXCEPT ![p] = "raised"]
                          /\ outcome' = [outcome EXCEPT ![p] = "Locked"]
          ELSE /\ lock_owner' = lock_owner
               /\ pc' = [pc EXCEPT ![p] = "raised"]
               /\ outcome' = [outcome EXCEPT ![p] = "JSONDecodeError"]
    /\ conn' = [conn EXCEPT ![p] = NoProc]
    /\ UNCHANGED <<kind, wait, process_name, attempted, retried, bound,
                   listening, lastIO>>
    /\ UNCHANGED notLock

\* time.sleep(30), then the next turn of the while loop
Sleep(p) ==
    /\ pc[p] = "sleep"
    /\ pc' = [pc EXCEPT ![p] = "bind"]
    /\ UNCHANGED <<kind, wait, process_name, attempted, retried, bound,
                   listening, conn, lock_owner, outcome, lastIO>>
    /\ UNCHANGED notLock

\* mutant of ReleasedBy: the binding outlives its process
ReleasedNone(p) == {}

\* The sockets a terminating process leaves behind: the platform closes them
\* (Lock.__del__ does the same at interpreter shutdown).
ReleasedBy(p) == {p}

\* The process ends: main returned, an exception was not caught, or the
\* process was killed.  There is no unlock operation.
Exit(p) ==
    /\ Alive(p)
    /\ pc' = [pc EXCEPT ![p] = "exited"]
    /\ bound' = bound \ ReleasedBy(p)
    /\ listening' = listening \ ReleasedBy(p)
    /\ UNCHANGED <<kind, wait, process_name, attempted, retried, conn,
                   lock_owner, outcome, lastIO>>
    /\ UNCHANGED notLock

\* ------------------------------------- the programs' registry/snapshot I/O
IO(p, f, o) == [who |-> p, file |-> f, op |-> o, holders |-> bound]

\* load_clients: ClientDb.load_clients in findclients.py and
\* trackingreport.py (reached only after ClientDb.__init__ took the lock),
\* FollowerTracker.load_clients in trackfollowers.py (no lock is taken).
\* The tracker's filter_clients raises on a registry that is not a list of
\* records, finds no client in an empty one, or goes on to its loop.
LoadClients(p) ==
    /\ pc[p] = "load_clients"
    /\ lastIO' = IO(p, "clients", "r")
    /\ \E next \in CASE kind[p] = "finder" -> {"merge_clients"}
                     [] kind[p] = "reporter" -> {"pass"}
                     [] OTHER -> {"load_followers", "done", "raised"} :
          pc' = [pc EXCEPT ![p] = next]
    /\ outcome' = [outcome EXCEPT ![p] =
                      IF pc'[p] = "raised" THEN "TypeError" ELSE @]
    /\ UNCHANGED <<kind, wait, process_name, attempted, retried, bound,
                   listening, conn, lock_owner>>
    /\ UNCHANGED notLock

\* ClientFinder.update_client_list after its load: merge_clients, then the
\* call of update_client_list on the merged registry, which loads again; the
\* chain ends with an exception (of merge_clients, or RecursionError).
UpdateClientList(p) ==
    /\ pc[p] = "merge_clients"
    /\ \/ /\ pc' = [pc EXCEPT ![p] = "load_clients"]
          /\ outcome' = outcome
       \/ /\ pc' = [pc EXCEPT ![p] = "raised"]
          /\ outcome' = [outcome EXCEPT ![p] = "Error"]
    /\ UNCHANGED <<kind, wait, process_name, attempted, retried, bound,
                   listening, conn, lock_owner, lastIO>>
    /\ UNCHANGED notLock

\* trackingreport.main after active_clients: the notification pass, which
\* touches report files and the gate file only (see SpecNotify).
NotificationPass(p) ==
    /\ pc[p] = "pass"
    /\ pc' = [pc EXCEPT ![p] = "done"]
    /\ UNCHANGED <<kind, wait, process_name, attempted, retried, bound,
                   listening, conn, lock_owner, outcome, lastIO>>
    /\ UNCHANGED notLock

\* trackfollowers.main, one client: compare_followers reads the snapshot ...
LoadFollowers(p) ==
    /\ pc[p] = "load_followers"
    /\ lastIO' = IO(p, "followers", "r")
    /\ pc' = [pc EXCEPT ![p] = "save_followers"]
    /\ UNCHANGED <<kind, wait, process_name, attempted, retried, bound,
                   listening, conn, lock_owner, outcome>>
    /\ UNCHANGED notLock

\* ... and save_followers overwrites it; then the next client, or the end.
SaveFollowers(p) ==
    /\ pc[p] = "save_followers"
    /\ lastIO' = IO(p, "followers", "w")
    /\ \E next \in {"load_followers", "done"} : pc' = [pc EXCEPT ![p] = next]
    /\ UNCHANGED <<kind, wait, process_name, attempted, retried, bound,
                   listening, conn, lock_owner, outcome>>
    /\ UNCHANGED notLock

\* A process whose lock() has returned True calls lock() again, on the same
\* Lock or on a new one (a second ClientDb()), with either wait mode.  The
\* first socket stays bound and its monitor thread goes on answering.
Reacquire(p) ==
    /\ pc[p] = "held"
    /\ \E w \in BOOLEAN : wait' = [wait EXCEPT ![p] = w]
    /\ attempted' = [attempted EXCEPT ![p] = FALSE]
    /\ retried' = [retried EXCEPT ![p] = FALSE]
    /\ outcome' = [outcome EXCEPT ![p] = "none"]
    /\ pc' = [pc EXCEPT ![p] = "bind"]
    /\ UNCHANGED <<kind, process_name, bound, listening, conn, lock_owner,
                   lastIO>>
    /\ UNCHANGED notLock

\* The callers of Lock.lock alone, with second calls
NextReenter ==
    \E p \in Procs :
        \/ StartClient(p)
        \/ TryBind(p)
        \/ Listen(p)
        \/ Connect(p)
        \/ Recv(p)
        \/ Sleep(p)
        \/ Exit(p)
        \/ Reacquire(p)

NextLock ==
    \E p \in Procs :
        \/ StartClient(p)
        \/ StartFinder(p)
        \/ StartReporter(p)
        \/ StartTracker(p)
        \/ TryBind(p)
        \/ Listen(p)
        \/ Connect(p)
        \/ Recv(p)
        \/ Sleep(p)
        \/ Exit(p)
        \/ LoadClients(p)
        \/ UpdateClientList(p)
        \/ NotificationPass(p)
        \/ LoadFollowers(p)
        \/ SaveFollowers(p)

\* ------------------------------------------------------ trackingreport.py
NumSubs == 1

MaxClock == 3

MaxSent == 2

\* datetime.now() is finer than the "%Y-%m-%d %X" strings the programs store:
\* the clock counts ticks, a stored timestamp counts whole seconds.
TicksPerSecond == 2

Subs == 1..NumSubs

Seconds == 0..(MaxClock \div TicksPerSecond)

\* A report file as trackingreport.main reads it: the second it was generated
\* in, and whether its "added" and its "deleted" lists hold any identifier.
NoReport == [generated |-> -1, added |-> FALSE, deleted |-> FALSE]

EmptyDict == [x \in {} |-> 0]

\* d[k] = v of a Python dict
Put(d, k, v) == [x \in DOMAIN d \cup {k} |-> IF x = k THEN v ELSE d[x]]

\* datetime.strftime(t, DATE_FORMAT): the sub-second part is dropped
strftime(t) == t \div TicksPerSecond

\* datetime.strptime(s, DATE_FORMAT)
strptime(s) == s * TicksPerSecond

\* mutant of is_new_report: a report as old as the last DM counts as new
is_new_report_le(report_date, screen_name) ==
    \/ screen_name \notin DOMAIN last_report
    \/ strptime(last_report[screen_name]) <= strptime(report_date)

\* TrackingReporter.is_new_report
is_new_report(report_date, screen_name) ==
    \/ screen_name \notin DOMAIN last_report
    \/ strptime(last_report[screen_name]) < strptime(report_date)

\* mutant of send_report: the time is recorded whether or not the DM went out
send_report_always(posted, screen_name) ==
    Put(last_report, screen_name, strftime(now))

\* TrackingReporter.send_report: last_report after PostDirectMessage returned
\* (posted) or raised (not posted)
send_report(posted, screen_name) ==
    IF posted THEN Put(last_report, screen_name, strftime(now))
              ELSE last_report

InitNotify ==
    /\ now = 0
    /\ reportFile = [s \in Subs |-> NoReport]
    /\ gateFile = EmptyDict
    /\ last_report = EmptyDict
    /\ rpc = "idle"
    /\ idx = 1
    /\ notweet = FALSE
    /\ send_result = "none"
    /\ sent = [s \in Subs |-> 0]

Tick ==
    /\ now < MaxClock
    /\ now' = now + 1
    /\ UNCHANGED <<reportFile, gateFile, last_report, rpc, idx,
                   notweet, send_result, sent>>
    /\ UNCHANGED notNotify

\* FollowerTracker.save_compare_report, run by the detection process at any
\* moment: the report of client s is overwritten and stamped with the time.
WriteReport(s) ==
    /\ \E a \in BOOLEAN, d \in BOOLEAN :
          reportFile' = [reportFile EXCEPT
                            ![s] = [generated |-> strftime(now),
                                    added |-> a, deleted |-> d]]
    /\ sent' = [sent EXCEPT ![s] =
                   IF reportFile'[s].generated = reportFile[s].generated
                      THEN @ ELSE 0]
    /\ UNCHANGED <<now, gateFile, last_report, rpc, idx, notweet,
                   send_result>>
    /\ UNCHANGED notNotify

\* trackingreport.main up to the loop: TrackingReporter.__init__ loads
\* last_report.json (no entries when the file is not found).
StartRun ==
    /\ rpc = "idle"
    /\ \E o \in BOOLEAN : notweet' = o
    /\ rpc' = "loop"
    /\ last_report' = gateFile
    /\ UNCHANGED <<now, reportFile, gateFile, idx, send_result, sent>>
    /\ UNCHANGED notNotify

report_always(data) == TRUE

\* TrackingReporter.report: a phrase is appended for each of "added" and
\* "deleted" that is not empty; the empty string is returned as None, which
\* main tests with "if report:".  TRUE stands for a report to send.
report(data) == data.added \/ data.deleted

\* One turn of the for loop of main, for the client screen_names[idx].
ProcessClient ==
    /\ rpc = "loop"
    /\ LET s == idx
           r == reportFile[s]
       IN \E posted \in BOOLEAN :
             LET did ==
                    IF r = NoReport THEN "error"
                    ELSE IF ~report(r) THEN "nothing"
                    ELSE IF ~is_new_report(r.generated, s) THEN "suppressed"
                    ELSE IF notweet THEN "notweet"
                    ELSE IF posted THEN "sent"
                    ELSE "failed"
             IN /\ send_result' = did
                /\ last_report' =
                      IF did \in {"sent", "failed"}
                         THEN send_report(posted, s) ELSE last_report
                /\ sent' = [sent EXCEPT ![s] =
                               IF did = "sent" /\ @ < MaxSent
                                  THEN @ + 1 ELSE @]
    /\ idx' = IF idx = NumSubs THEN 1 ELSE idx + 1
    /\ rpc' = IF idx = NumSubs THEN "save" ELSE "loop"
    /\ UNCHANGED <<now, reportFile, gateFile, notweet>>
    /\ UNCHANGED notNotify

\* TrackingReporter.save_last_report_time: the file is rewritten and True
\* returned, or the file cannot be opened for writing, the error is logged
\* and False returned.  main ignores the result.
SaveGate ==
    /\ rpc = "save"
    /\ \E saved \in BOOLEAN :
          gateFile' = IF saved THEN last_report ELSE gateFile
    /\ rpc' = "done"
    /\ UNCHANGED <<now, reportFile, last_report, idx, notweet, send_result,
                   sent>>
    /\ UNCHANGED notNotify

\* The notification process ends: main returned.
EndRun ==
    /\ rpc = "done"
    /\ rpc' = "idle"
    /\ last_report' = EmptyDict
    /\ idx' = 1
    /\ notweet' = FALSE
    /\ send_result' = "none"
    /\ UNCHANGED <<now, reportFile, gateFile, sent>>
    /\ UNCHANGED notNotify

NextNotify ==
    \/ Tick
    \/ \E s \in Subs : WriteReport(s)
    \/ StartRun
    \/ ProcessClient
    \/ SaveGate
    \/ EndRun

\* --------------------------------------------------- ClientDb.merge_clients
NumChars == 2

MaxNameLen == 2

MaxClients == 2

Chars == 1..NumChars

\* Twitter screen names: non-empty strings
Names == UNION {[1..n -> Chars] : n \in 1..MaxNameLen}

\* The values found in a registry: a client record, as stored in clients.json
\* ("registry") or as built by ClientFinder.search ("search"), or a string.
Record(name, src) == [kind |-> "record", of |-> name, src |-> src]

Str(chars) == [kind |-> "str", of |-> chars, src |-> ""]

\* A Python dict: its items in insertion order, each key once.
Keys(d) == {d[i].key : i \in DOMAIN d}

Get(d, k) == (CHOOSE i \in DOMAIN d : d[i].key = k)

Items(d) == {<<d[i].key, d[i].value>> : i \in DOMAIN d}

\* d[k] = v
SetItem(d, k, v) ==
    IF k \in Keys(d)
       THEN [i \in DOMAIN d |-> IF d[i].key = k THEN [key |-> k, value |-> v]
                                                ELSE d[i]]
       ELSE Append(d, [key |-> k, value |-> v])

\* The registries of at most MaxClients clients, every record under its name
Dicts(src) ==
    {[i \in DOMAIN ks |-> [key |-> ks[i], value |-> Record(ks[i], src)]] :
        ks \in {q \in UNION {[1..n -> Names] : n \in 0..MaxClients} :
                   \A i, j \in DOMAIN q : i # j => q[i] # q[j]}}

Raised == [raised |-> TRUE, d |-> <<>>]

Returned(d) == [raised |-> FALSE, d |-> d]

\* "for screen_name, client in clients": iterating a dict yields its keys, and
\* each key, a string, is unpacked into the two targets: a key of two
\* characters gives two one-character strings, any other key raises
\* ValueError.
Unpacks(k) == Len(k) = 2

\* lines 66-68: the first loop of merge_clients, from item i on
RECURSIVE FirstLoop(_, _, _, _)
FirstLoop(cl, new, i, acc) ==
    IF i > Len(cl) THEN Returned(acc)
    ELSE IF ~Unpacks(cl[i].key) THEN Raised
    ELSE LET screen_name == <<cl[i].key[1]>>
             client == Str(<<cl[i].key[2]>>)
         IN FirstLoop(cl, new, i + 1,
                      IF screen_name \in Keys(new)
                         THEN SetItem(acc, screen_name, client) ELSE acc)

\* lines 70-72: the second loop of merge_clients, from item i on
RECURSIVE SecondLoop(_, _, _)
SecondLoop(new, i, acc) ==
    IF i > Len(new) THEN Returned(acc)
    ELSE IF ~Unpacks(new[i].key) THEN Raised
    ELSE LET screen_name == <<new[i].key[1]>>
             client == Str(<<new[i].key[2]>>)
         IN SecondLoop(new, i + 1,
                       IF screen_name \notin Keys(acc)
                          THEN SetItem(acc, screen_name, client) ELSE acc)

\* ClientDb.merge_clients
merge_clients(cl, new) ==
    LET first == FirstLoop(cl, new, 1, <<>>)
    IN IF first.raised THEN Raised ELSE SecondLoop(new, 1, first.d)

InitMergeIdle ==
    /\ clients = <<>>
    /\ new_clients = <<>>
    /\ merged = Returned(<<>>)
    /\ remerged = Returned(<<>>)
    /\ mpc = "start"

InitMerge ==
    /\ clients \in Dicts("registry")
    /\ new_clients \in Dicts("search")
    /\ merged = Returned(<<>>)
    /\ remerged = Returned(<<>>)
    /\ mpc = "start"

\* ClientFinder.update_client_list, line 88
MergeClients ==
    /\ mpc = "start"
    /\ merged' = merge_clients(clients, new_clients)
    /\ mpc' = "merged"
    /\ UNCHANGED <<clients, new_clients, remerged>>
    /\ UNCHANGED notMerge

\* The merged registry merged once more with the same followers; an
\* exception of the first merge leaves nothing to merge.
MergeAgain ==
    /\ mpc = "merged"
    /\ remerged' = IF merged.raised THEN Raised
                   ELSE merge_clients(merged.d, new_clients)
    /\ mpc' = "remerged"
    /\ UNCHANGED <<clients, new_clients, merged>>
    /\ UNCHANGED notMerge

NextMerge ==
    \/ MergeClients
    \/ MergeAgain

\* ------------------------------------ FollowerTracker.compare_followers
NumIds == 4

MaxFollowers == 3

Ids == 1..NumIds

\* The follower lists: each id at most once
Lists ==
    {q \in UNION {[1..n -> Ids] : n \in 0..MaxFollowers} :
        \A i, j \in DOMAIN q : i # j => q[i] # q[j]}

\* A snapshot file: not there, there with a list of ids, or there with
\* content json.load cannot read.
Missing == [state |-> "missing", ids |-> <<>>]

Corrupt == [state |-> "corrupt", ids |-> <<>>]

Saved(ids) == [state |-> "ok", ids |-> ids]

SnapshotFiles == {Missing, Corrupt} \cup {Saved(l) : l \in Lists}

\* None and a list, as results of load_followers
None == [none |-> TRUE, ids |-> <<>>]

Some(ids) == [none |-> FALSE, ids |-> ids]

load_followers_empty(file) ==
    CASE file.state = "missing" -> Some(<<>>)
      [] file.state = "corrupt" -> Some(<<>>)
      [] OTHER -> Some(file.ids)

\* FollowerTracker.load_followers
load_followers(file) ==
    CASE file.state = "missing" -> Some(<<>>)
      [] file.state = "corrupt" -> None
      [] OTHER -> Some(file.ids)

Elements(l) == {l[i] : i \in DOMAIN l}

NotInKept(l, other) == l

\* [x for x in l if x not in other], lines 195-198 and 200-203
RECURSIVE NotIn(_, _)
NotIn(l, other) ==
    IF l = <<>> THEN <<>>
    ELSE IF Head(l) \notin Elements(other)
            THEN <<Head(l)>> \o NotIn(Tail(l), other)
            ELSE NotIn(Tail(l), other)

NoChanges == [none |-> TRUE, added |-> <<>>, deleted |-> <<>>]

compare_followers_all_deleted(fs, old_followers) ==
    IF old_followers.none THEN NoChanges
    ELSE [none |-> FALSE,
          added |-> NotIn(fs, old_followers.ids),
          deleted |-> old_followers.ids]

\* FollowerTracker.compare_followers, given what load_followers returned
compare_followers(fs, old_followers) ==
    IF old_followers.none THEN NoChanges
    ELSE [none |-> FALSE,
          added |-> NotIn(fs, old_followers.ids),
          deleted |-> NotIn(old_followers.ids, fs)]

InitDiffIdle ==
    /\ followers = <<>>
    /\ snapshot = Missing
    /\ changes = NoChanges
    /\ reverse = NoChanges
    /\ dpc = "start"

InitDiff ==
    /\ followers \in Lists
    /\ snapshot \in SnapshotFiles
    /\ changes = NoChanges
    /\ reverse = NoChanges
    /\ dpc = "start"

\* trackfollowers.main, line 273
CompareFollowers ==
    /\ dpc = "start"
    /\ changes' = compare_followers(followers, load_followers(snapshot))
    /\ dpc' = "compared"
    /\ UNCHANGED <<followers, snapshot, reverse>>
    /\ UNCHANGED notDiff

\* The same comparison of a run in which the saved list is the current one
\* and the current list is the saved one.
CompareReversed ==
    /\ dpc = "compared"
    /\ ~load_followers(snapshot).none
    /\ reverse' = compare_followers(load_followers(snapshot).ids,
                                    load_followers(Saved(followers)))
    /\ dpc' = "reversed"
    /\ UNCHANGED <<followers, snapshot, changes>>
    /\ UNCHANGED notDiff

NextDiff ==
    \/ CompareFollowers
    \/ CompareReversed

\* ------------------------------------------------------ PhraseMaker.make
\* Strings are sequences of characters.  The templates are made of up to
\* MaxPieces pieces: an opening delimiter, a closing delimiter or the letter
\* A, which is a keyword between delimiters and plain text elsewhere.
MaxPieces == 6

MaxCeiling == 2

\* The model stops a call of make after this many substitutions.
CountCap == MaxCeiling + 2

Open == <<"{", "{">>

Close == <<"}", "}">>

Pieces == {Open, Close, <<"A">>}

RECURSIVE Flatten(_)
Flatten(q) == IF q = <<>> THEN <<>> ELSE Head(q) \o Flatten(Tail(q))

Templates ==
    {Flatten(q) : q \in UNION {[1..n -> Pieces] : n \in 0..MaxPieces}}

\* s[a:b], for 0 <= a and 0 <= b <= len(s)
Slice(s, a, b) == SubSeq(s, a + 1, b)

\* s.find(sub, start): the lowest index >= start where sub occurs in s, or -1
find(s, sub, start) ==
    LET hits == {i \in start..(Len(s) - Len(sub)) :
                    Slice(s, i, i + Len(sub)) = sub}
    IN IF hits = {} THEN -1
       ELSE CHOOSE i \in hits : \A j \in hits : i <= j

\* The entries of a vocabulary list: a word, or a list [singular, plural]
Word(w) == [list |-> FALSE, words |-> <<w>>]

Pair(w1, w2) == [list |-> TRUE, words |-> <<w1, w2>>]

\* A vocabulary whose words hold no delimiter, and one with a word that holds
\* its own keyword between delimiters.
Plain ==
    [k \in {<<"A">>} |-> {Word(<<"x">>), Pair(<<"y">>, <<"y", "s">>)}]

Cyclic ==
    [k \in {<<"A">>} |-> {Word(<<"x">>), Word(Open \o <<"A">> \o Close)}]

Vocabularies == {Plain, Cyclic}

Quantities == {1, 2}

\* Lines 67-74: random.choice, then singular or plural of a list
new_word(entry, qty) ==
    IF entry.list
       THEN IF qty = 1 THEN entry.words[1] ELSE entry.words[2]
       ELSE entry.words[1]

splice_short(res, open_position, close_position, word) ==
    Slice(res, 0, open_position) \o word
        \o Slice(res, close_position + 1, Len(res))

\* Line 76
splice(res, open_position, close_position, word) ==
    Slice(res, 0, open_position) \o word
        \o Slice(res, close_position + 2, Len(res))

\* What a turn of the loop does: kind is where make is afterwards, result the
\* value of result, substitutions what the turn adds to substitution_count.
Returns(res) == [kind |-> "returned", result |-> res, substitutions |-> 0]

Raises(res) == [kind |-> "KeyError", result |-> res, substitutions |-> 0]

\* The test of the while loop, line 52, after lines 48 and 78
Again(res) == IF find(res, Open, 0) = -1 THEN "returned" ELSE "loop"

\* Lines 76-78
Substituted(res) == [kind |-> Again(res), result |-> res, substitutions |-> 1]

iteration_lenient(res, vocab, qty) ==
    LET open_position == find(res, Open, 0)
        close_position == find(res, Close, 0)
        keyword == Slice(res, open_position + 2, close_position)
    IN IF close_position = -1 THEN {Returns(res)}
       ELSE IF keyword \notin DOMAIN vocab THEN {Returns(res)}
       ELSE {Substituted(splice(res, open_position, close_position,
                                new_word(entry, qty))) :
                entry \in vocab[keyword]}

\* One turn of the while loop, lines 54-78, with an opening delimiter in res:
\* the results it can have
iteration(res, vocab, qty) ==
    LET open_position == find(res, Open, 0)
        close_position == find(res, Close, 0)
        keyword == Slice(res, open_position + 2, close_position)
    IN IF close_position = -1 THEN {Returns(res)}
       ELSE IF keyword \notin DOMAIN vocab THEN {Raises(res)}
       ELSE {Substituted(splice(res, open_position, close_position,
                                new_word(entry, qty))) :
                entry \in vocab[keyword]}

InitMakeIdle ==
    /\ template = <<>>
    /\ quantity = 1
    /\ vocabulary = <<>>
    /\ substitution_max = 1
    /\ result = <<>>
    /\ substitution_count = 0
    /\ kpc = "start"

\* PhraseMaker(vocabulary, substitution_max) and the arguments of make
InitMake ==
    /\ template \in Templates
    /\ quantity \in Quantities
    /\ vocabulary \in Vocabularies
    /\ substitution_max \in 1..MaxCeiling
    /\ result = <<>>
    /\ substitution_count = 0
    /\ kpc = "start"

\* make, lines 45-52
MakeCall ==
    /\ kpc = "start"
    /\ result' = template
    /\ substitution_count' = 0
    /\ kpc' = Again(template)
    /\ UNCHANGED <<template, quantity, vocabulary, substitution_max>>
    /\ UNCHANGED notMake

\* make, lines 52-78: one turn of the while loop
MakeIteration ==
    /\ kpc = "loop"
    /\ substitution_count < CountCap
    /\ \E out \in iteration(result, vocabulary, quantity) :
          /\ result' = out.result
          /\ kpc' = out.kind
          /\ substitution_count' = substitution_count + out.substitutions
    /\ UNCHANGED <<template, quantity, vocabulary, substitution_max>>
    /\ UNCHANGED notMake

NextMake ==
    \/ MakeCall
    \/ MakeIteration

\* ---------------------------------- ClientDb.load_clients, active_clients
\* Time is counted in ticks, TicksPerDay to a day; a date is the number of
\* its day and strptime gives the first tick of the day (midnight).
MaxRegistered == 2

MaxDay == 2

TicksPerDay == 2

Days == 0..MaxDay

Instants == 0..((MaxDay + 1) * TicksPerDay - 1)

\* A subscription_ends value that is no date
BadDate == -1

ClientRecords == [active : BOOLEAN, subscription_ends : Days \cup {BadDate}]

\* The value of "clients" in clients.json: screen names to client records
Registries ==
    UNION {[names -> ClientRecords] : names \in SUBSET (1..MaxRegistered)}

\* clients.json: not there; not JSON; JSON that is an object without the key
\* "clients"; JSON that is no object (a list); or a registry
NotThere == [kind |-> "missing", clients |-> <<>>]

NotJson == [kind |-> "unparseable", clients |-> <<>>]

NoClientsKey == [kind |-> "no_clients_key", clients |-> <<>>]

NotObject == [kind |-> "not_object", clients |-> <<>>]

RegistryFile(c) == [kind |-> "registry", clients |-> c]

ClientFiles ==
    {NotThere, NotJson, NoClientsKey, NotObject}
        \cup {RegistryFile(c) : c \in Registries}

\* What load_clients does for its caller
Unloaded == [raised |-> "unset", clients |-> <<>>]

Gives(c) == [raised |-> "none", clients |-> c]

Fails(e) == [raised |-> e, clients |-> <<>>]

\* ClientDb.load_clients: the default {"clients": {}} stays when open or
\* json.load raises; client_db["clients"] is evaluated after the try.
load_clients(file) ==
    CASE file.kind = "missing" -> Gives(<<>>)
      [] file.kind = "unparseable" -> Gives(<<>>)
      [] file.kind = "no_clients_key" -> Fails("KeyError")
      [] file.kind = "not_object" -> Fails("TypeError")
      [] OTHER -> Gives(file.clients)

\* datetime.strptime(end_date, "%Y-%m-%d")
strptime_date(end_date) == end_date * TicksPerDay

subscription_ended_strict(end_date, instant) ==
    IF end_date = BadDate THEN TRUE
    ELSE strptime_date(end_date) < instant

\* ClientDb.subscription_ended
subscription_ended(end_date, instant) ==
    IF end_date = BadDate THEN FALSE
    ELSE strptime_date(end_date) < instant

\* ClientDb.active_clients
active_clients(c, instant) ==
    {screen_name \in DOMAIN c :
        /\ c[screen_name].active
        /\ ~subscription_ended(c[screen_name].subscription_ends, instant)}

InitRegIdle ==
    /\ clientFile = NotThere
    /\ client_db = Unloaded
    /\ today = 0
    /\ active = {}
    /\ gpc = "start"

InitReg ==
    /\ clientFile \in ClientFiles
    /\ client_db = Unloaded
    /\ today \in Instants
    /\ active = {}
    /\ gpc = "start"

\* clients = client_db.load_clients()
RegLoad ==
    /\ gpc = "start"
    /\ client_db' = load_clients(clientFile)
    /\ gpc' = IF load_clients(clientFile).raised = "none"
                 THEN "loaded" ELSE "raised"
    /\ UNCHANGED <<clientFile, today, active>>
    /\ UNCHANGED notReg

\* client_db.active_clients(clients)
RegActive ==
    /\ gpc = "loaded"
    /\ active' = active_clients(client_db.clients, today)
    /\ gpc' = "filtered"
    /\ UNCHANGED <<clientFile, client_db, today>>
    /\ UNCHANGED notReg

NextReg ==
    \/ RegLoad
    \/ RegActive

\* -------------------------------------------------- trackfollowers.main
\* The detection run: main loops over the clients; for each one it fetches
\* the followers, compares them with the snapshot, saves the snapshot, saves
\* the report and, without --status, lists the added and deleted followers.
\* The Twitter API calls are taken to succeed.
NumTracked == 2

Tracked == 1..NumTracked

SnapStates == {"missing", "ok", "corrupt"}

\* The records of the registry the detection run is tried on: a client that
\* is active and not expired, one that is active and expired, one that is
\* not active.  TrackNow is the instant of the run.
TrackNow == TicksPerDay

TrackRecords ==
    {[active |-> TRUE, subscription_ends |-> MaxDay],
     [active |-> TRUE, subscription_ends |-> 0],
     [active |-> FALSE, subscription_ends |-> MaxDay]}

\* clients.json as trackfollowers.py finds it: not there; "clients" a list
\* of records, each with its screen_name; or "clients" a dict from screen
\* names to records, the form ClientDb reads and writes.
NoRegistry == [form |-> "missing", clients |-> <<>>]

ListRegistries ==
    {[form |-> "list",
      clients |-> [i \in Tracked |->
                      [screen_name |-> i, active |-> r[i].active,
                       subscription_ends |-> r[i].subscription_ends]]] :
        r \in [Tracked -> TrackRecords]}

DictRegistries ==
    {[form |-> "dict", clients |-> d] :
        d \in UNION {[names -> TrackRecords] : names \in SUBSET Tracked}}

TrackRegistries == {NoRegistry} \cup ListRegistries \cup DictRegistries

\* FollowerTracker.filter_clients: the screen_name of every element of
\* client_db["clients"].  The elements of a dict are its keys, strings, and
\* client["screen_name"] on a string raises TypeError.
filter_clients(registry) ==
    CASE registry.form = "list" ->
            [raised |-> FALSE,
             clients |-> [i \in DOMAIN registry.clients |->
                             registry.clients[i].screen_name]]
      [] registry.form = "dict" /\ DOMAIN registry.clients # {} ->
            [raised |-> TRUE, clients |-> <<>>]
      [] OTHER -> [raised |-> FALSE, clients |-> <<>>]

InitTrackIdle ==
    /\ tpc = "start"
    /\ tcur = 1
    /\ status = FALSE
    /\ snapFile = <<>>
    /\ tchanges = "unset"
    /\ processed = {}
    /\ tregistry = NoRegistry
    /\ tclients = <<>>
    /\ fetched = {}
    /\ tlog = <<>>

InitTrack ==
    /\ tpc = "start"
    /\ tcur = 1
    /\ status \in BOOLEAN
    /\ snapFile \in [Tracked -> SnapStates]
    /\ tchanges = "unset"
    /\ processed = {}
    /\ tregistry \in TrackRegistries
    /\ tclients = <<>>
    /\ fetched = {}
    /\ tlog = <<>>

\* main, lines 258-262: FollowerTracker(...), whose __init__ loads the
\* registry (load_clients, filter_clients); then the loop begins or, with no
\* client, ends at once.
TrackerInit ==
    /\ tpc = "start"
    /\ LET loaded == filter_clients(tregistry)
       IN /\ tclients' = loaded.clients
          /\ tpc' = IF loaded.raised THEN "init_raised"
                    ELSE IF loaded.clients = <<>> THEN "done"
                    ELSE "compare"
    /\ UNCHANGED <<tcur, status, snapFile, tchanges, processed, tregistry,
                   fetched, tlog>>
    /\ UNCHANGED notTrack

TrackCompareLate ==
    /\ tpc = "compare"
    /\ fetched' = fetched \cup {tclients[tcur]}
    /\ tchanges' = "record"
    /\ tlog' = tlog \o <<"save_snapshot", "load", "diff">>
    /\ snapFile' = [snapFile EXCEPT ![tclients[tcur]] = "ok"]
    /\ tpc' = "report"
    /\ UNCHANGED <<tcur, status, processed, tregistry, tclients>>
    /\ UNCHANGED notTrack

\* main, lines 272-273: get_followers; compare_followers, which loads the
\* snapshot and computes the changes
TrackCompare ==
    /\ tpc = "compare"
    /\ fetched' = fetched \cup {tclients[tcur]}
    /\ tchanges' = IF snapFile[tclients[tcur]] = "corrupt"
                      THEN "None" ELSE "record"
    /\ tlog' = tlog \o <<"load", "diff">>
    /\ tpc' = "save"
    /\ UNCHANGED <<tcur, status, snapFile, processed, tregistry, tclients>>
    /\ UNCHANGED notTrack

\* main, line 274: save_followers returns True or, after logging, False; main
\* does not look at it.  A failed write leaves the file as it was or broken.
TrackSaveFollowers ==
    /\ tpc = "save"
    /\ \E written \in BOOLEAN :
          \E left \in {snapFile[tclients[tcur]], "corrupt"} :
             snapFile' = [snapFile EXCEPT
                             ![tclients[tcur]] =
                                 IF written THEN "ok" ELSE left]
    /\ tlog' = Append(tlog, "save_snapshot")
    /\ tpc' = "report"
    /\ UNCHANGED <<tcur, status, tchanges, processed, tregistry, tclients,
                   fetched>>
    /\ UNCHANGED notTrack

\* main, line 275: save_compare_report; with changes None the assignment
\* report["screen_name"] raises TypeError inside the try, which is logged.
TrackSaveReport ==
    /\ tpc = "report"
    /\ tlog' = Append(tlog, "save_report")
    /\ tpc' = "list"
    /\ UNCHANGED <<tcur, status, snapFile, tchanges, processed, tregistry,
                   tclients, fetched>>
    /\ UNCHANGED notTrack

\* main, lines 277-279 and the end of the loop body: changes["added"] with
\* changes None raises TypeError, which nothing catches.
TrackList ==
    /\ tpc = "list"
    /\ IF ~status /\ tchanges = "None"
          THEN /\ tpc' = "raised"
               /\ UNCHANGED <<tcur, processed, tlog>>
          ELSE /\ processed' = processed \cup {tclients[tcur]}
               /\ tlog' = <<>>
               /\ tcur' = IF tcur = Len(tclients) THEN tcur ELSE tcur + 1
               /\ tpc' = IF tcur = Len(tclients) THEN "done" ELSE "compare"
    /\ UNCHANGED <<status, snapFile, tchanges, tregistry, tclients, fetched>>
    /\ UNCHANGED notTrack

NextTrack ==
    \/ TrackerInit
    \/ TrackCompare
    \/ TrackSaveFollowers
    \/ TrackSaveReport
    \/ TrackList

\* ------------------------------------- save_clients, save_compare_report
\* Every save of the programs is open(name, "w") followed by json.dump and
\* the end of the with block: open truncates the file at once, the text
\* reaches the disk while json.dump runs (as the buffer fills) and at the
\* close.  What a file holds is the number of the save that wrote it and how
\* much of that text is there.
MaxSaves == 2

Files == {"clients.json", "report.json"}

Whole(n) == [save |-> n, state |-> "complete"]

Truncated(n) == [save |-> n, state |-> "empty"]

Part(n) == [save |-> n, state |-> "partial"]

Unread == [save |-> 0, state |-> "unread"]

InitFileIdle ==
    /\ content = [f \in Files |-> Whole(0)]
    /\ wpc = [f \in Files |-> "idle"]
    /\ seen = [f \in Files |-> Unread]

\* with open(..., "w") as file: clients_db.py line 85, trackfollowers.py
\* line 170
SaveOpen(f) ==
    /\ wpc[f] = "idle"
    /\ content[f].save < MaxSaves
    /\ content' = [content EXCEPT ![f] = Truncated(content[f].save + 1)]
    /\ wpc' = [wpc EXCEPT ![f] = "dump"]
    /\ UNCHANGED seen
    /\ UNCHANGED notFile

\* json.dump: some of the text may reach the disk before the close
SaveDump(f) ==
    /\ wpc[f] = "dump"
    /\ \E flushed \in BOOLEAN :
          content' = [content EXCEPT
                         ![f] = IF flushed THEN Part(@.save) ELSE @]
    /\ wpc' = [wpc EXCEPT ![f] = "close"]
    /\ UNCHANGED seen
    /\ UNCHANGED notFile

\* The end of the with block: the file is flushed and closed
SaveClose(f) ==
    /\ wpc[f] = "close"
    /\ content' = [content EXCEPT ![f] = Whole(@.save)]
    /\ wpc' = [wpc EXCEPT ![f] = "idle"]
    /\ UNCHANGED seen
    /\ UNCHANGED notFile

\* Another process opens the file and reads it: trackfollowers.py line 56
\* (the registry, without the lock), trackingreport.py lines 186-187 (a
\* report, which trackfollowers.py writes without the lock)
ReadFile(f) ==
    /\ seen' = [seen EXCEPT ![f] = content[f]]
    /\ UNCHANGED <<content, wpc>>
    /\ UNCHANGED notFile

NextFile ==
    \E f \in Files :
        \/ SaveOpen(f)
        \/ SaveDump(f)
        \/ SaveClose(f)
        \/ ReadFile(f)

\* ------------------------------------------- trackingreport.main, the loop
\* The loop of main over the active clients and what can happen in a turn:
\* open or json.load of the report file raises (no file, no JSON); report
\* raises the KeyError of PhraseMaker.make; report returns None; the report
\* is not new; --notweet; send_report returns True; send_report catches the
\* error of the API and returns False.
NumNotified == 2

Raising == {"FileNotFoundError", "JSONDecodeError", "KeyError"}

TurnEvents == Raising \cup {"nothing", "suppressed", "notweet", "sent", "failed"}

CaughtNoFile(e) == e = "FileNotFoundError"

\* main, lines 198-200: except Exception
Caught(e) == e \in Raising

InitPassIdle ==
    /\ ppc = "start"
    /\ pcur = 1
    /\ happened = <<>>
    /\ gate = "none"

\* main, lines 167-178: the registry is loaded and the loop begins
PassStart ==
    /\ ppc = "start"
    /\ ppc' = "loop"
    /\ UNCHANGED <<pcur, happened, gate>>
    /\ UNCHANGED notPass

\* main, lines 178-200: one turn of the loop
PassTurn ==
    /\ ppc = "loop"
    /\ \E e \in TurnEvents :
          /\ happened' = Append(happened, e)
          /\ IF e \in Raising /\ ~Caught(e)
                THEN /\ ppc' = "raised"
                     /\ pcur' = pcur
                ELSE /\ ppc' = IF pcur = NumNotified THEN "save" ELSE "loop"
                     /\ pcur' = IF pcur = NumNotified THEN pcur ELSE pcur + 1
    /\ UNCHANGED gate
    /\ UNCHANGED notPass

\* main, line 202: save_last_report_time returns True or, after logging, False
PassSave ==
    /\ ppc = "save"
    /\ \E ok \in BOOLEAN : gate' = IF ok THEN "saved" ELSE "failed"
    /\ ppc' = "done"
    /\ UNCHANGED <<pcur, happened>>
    /\ UNCHANGED notPass

NextPass ==
    \/ PassStart
    \/ PassTurn
    \/ PassSave

\* ------------- trackingreport.main beside trackfollowers.py, step by step
\* The notification process takes no part in what the detection process
\* does: report files are written without the lock (trackfollowers.py never
\* takes it), so a report may be overwritten between any two statements of a
\* turn of the notification loop.
InitRaceIdle ==
    /\ report_data = NoReport
    /\ fresh = [s \in Subs |-> FALSE]
    /\ delivered = [s \in Subs |-> FALSE]

\* FollowerTracker.save_compare_report, run by the detection process at any
\* moment: a new report replaces the one on disk.
RaceWrite(s) ==
    /\ \E a \in BOOLEAN, d \in BOOLEAN :
          reportFile' = [reportFile EXCEPT
                            ![s] = [generated |-> strftime(now),
                                    added |-> a, deleted |-> d]]
    /\ sent' = [sent EXCEPT ![s] =
                   IF reportFile'[s].generated = reportFile[s].generated
                      THEN @ ELSE 0]
    /\ fresh' = [fresh EXCEPT ![s] = TRUE]
    /\ delivered' = [delivered EXCEPT ![s] = FALSE]
    /\ UNCHANGED <<now, gateFile, last_report, rpc, idx, notweet,
                   send_result, report_data>>
    /\ UNCHANGED notRace

\* main, lines 184-187: the report file of screen_names[idx] is opened and
\* loaded; a missing file raises, the handler logs and the turn is over.
RaceRead ==
    /\ rpc = "loop"
    /\ IF reportFile[idx] = NoReport
          THEN /\ send_result' = "error"
               /\ idx' = IF idx = NumSubs THEN 1 ELSE idx + 1
               /\ rpc' = IF idx = NumSubs THEN "save" ELSE "loop"
               /\ UNCHANGED <<report_data, fresh>>
          ELSE /\ report_data' = reportFile[idx]
               /\ fresh' = [fresh EXCEPT ![idx] = FALSE]
               /\ rpc' = "read"
               /\ UNCHANGED <<send_result, idx>>
    /\ UNCHANGED <<now, reportFile, gateFile, last_report, notweet, sent,
                   delivered>>
    /\ UNCHANGED notRace

\* main, lines 189-197: report, is_new_report and send_report on the data
\* that was loaded, whatever the file holds by now.
RaceSend ==
    /\ rpc = "read"
    /\ LET s == idx
           r == report_data
       IN \E posted \in BOOLEAN :
             LET did ==
                    IF ~report(r) THEN "nothing"
                    ELSE IF ~is_new_report(r.generated, s) THEN "suppressed"
                    ELSE IF notweet THEN "notweet"
                    ELSE IF posted THEN "sent"
                    ELSE "failed"
             IN /\ send_result' = did
                /\ last_report' =
                      IF did \in {"sent", "failed"}
                         THEN send_report(posted, s) ELSE last_report
                /\ sent' = [sent EXCEPT ![s] =
                               IF did = "sent" /\ @ < MaxSent
                                  THEN @ + 1 ELSE @]
                /\ delivered' = [delivered EXCEPT ![s] =
                                    IF did = "sent" THEN @ \/ ~fresh[s]
                                                    ELSE @]
    /\ idx' = IF idx = NumSubs THEN 1 ELSE idx + 1
    /\ rpc' = IF idx = NumSubs THEN "save" ELSE "loop"
    /\ UNCHANGED <<now, reportFile, gateFile, notweet, report_data, fresh>>
    /\ UNCHANGED notRace

NextRace ==
    \/ Tick
    \/ \E s \in Subs : RaceWrite(s)
    \/ StartRun
    \/ RaceRead
    \/ RaceSend
    \/ SaveGate
    \/ EndRun

\* ------------------------- ClientFinder.search, then active_clients
\* next_year(): the date a year after the day of the instant.  The instants
\* of the model span less than a year, so the date lies after all of them.
next_year(instant) == instant \div TicksPerDay + MaxDay + 1

\* ClientFinder.search, lines 65-74: the record made for a follower
search(screen_name, instant) ==
    [screen_name |-> screen_name,
     active |-> TRUE,
     report_via |-> "dm",
     email |-> "None",
     name |-> screen_name,
     lang |-> "en",
     subscrption_ends |-> next_year(instant)]

\* The records search makes at the instants up to a given one
SearchRecords(screen_name, instant) ==
    {search(screen_name, t) : t \in {u \in Instants : u <= instant}}

\* Registries that hold records made by search, at least one, beside records
\* with the two fields of ClientRecords
FreshRegistries(instant) ==
    {c \in UNION {[names -> ClientRecords
                              \cup UNION {SearchRecords(n, instant) :
                                             n \in 1..MaxRegistered}] :
                     names \in SUBSET (1..MaxRegistered)} :
        /\ \A n \in DOMAIN c :
              "screen_name" \in DOMAIN c[n] => c[n].screen_name = n
        /\ \E n \in DOMAIN c : "screen_name" \in DOMAIN c[n]}

\* client[key] of the comprehension of active_clients: the keys it reads
\* that the record does not have.  "and" does not evaluate its right side
\* when client["active"] is false.
MissingKeys(client) ==
    IF "active" \notin DOMAIN client THEN {"active"}
    ELSE IF client.active /\ "subscription_ends" \notin DOMAIN client
            THEN {"subscription_ends"}
            ELSE {}

Filtered(names) == [raised |-> "none", names |-> names]

KeyError == [raised |-> "KeyError", names |-> {}]

\* The call client_db.active_clients(clients): KeyError when a record read
\* lacks a key, otherwise the names active_clients gives
active_clients_call(c, instant) ==
    IF \E n \in DOMAIN c : MissingKeys(c[n]) # {}
       THEN KeyError
       ELSE Filtered(active_clients(c, instant))

InitFresh ==
    /\ today \in Instants
    /\ clientFile \in {RegistryFile(c) : c \in FreshRegistries(today)}
    /\ client_db = Unloaded
    /\ active = {}
    /\ gpc = "start"

\* screen_names = client_db.active_clients(client_db.load_clients()), the
\* second call: trackingreport.main, line 170
RegFilter ==
    /\ gpc = "loaded"
    /\ LET r == active_clients_call(client_db.clients, today)
       IN /\ active' = r.names
          /\ gpc' = IF r.raised = "none" THEN "filtered" ELSE "raised"
    /\ UNCHANGED <<clientFile, client_db, today>>
    /\ UNCHANGED notReg

NextFresh ==
    \/ RegLoad
    \/ RegFilter

\* ------------------------- trackfollowers.main, one turn with its files
\* One turn of the loop of main for one client, with the lists themselves:
\* the followers fetched, the snapshot file and the report file.
\* A report file: the one an earlier run left, or the one this turn wrote,
\* or content that cannot be read (a write that failed half-way).
OldReport == [from |-> "earlier", added |-> <<>>, deleted |-> <<>>]

BrokenReport == [from |-> "broken", added |-> <<>>, deleted |-> <<>>]

NewReport(c) == [from |-> "turn", added |-> c.added, deleted |-> c.deleted]

InitCycleIdle ==
    /\ before = Missing
    /\ reportStore = OldReport
    /\ replaced = FALSE

InitCycle ==
    /\ before = snapshot
    /\ reportStore = OldReport
    /\ replaced = FALSE

\* main, lines 272-273: followers = get_followers(...);
\* changes = compare_followers(followers, screen_name)
CycleCompare ==
    /\ dpc = "start"
    /\ changes' = compare_followers(followers, load_followers(snapshot))
    /\ dpc' = "save"
    /\ UNCHANGED <<followers, snapshot, reverse>>
    /\ UNCHANGED cycleVars
    /\ UNCHANGED notCycle

\* main, line 274: save_followers writes the list fetched and returns True,
\* or logs the exception and returns False, the file left as it was or
\* broken; main does not look at the result.
CycleSaveFollowers ==
    /\ dpc = "save"
    /\ \E written \in BOOLEAN :
          /\ \E left \in {snapshot, Corrupt} :
                snapshot' = IF written THEN Saved(followers) ELSE left
          /\ replaced' = written
    /\ dpc' = "report"
    /\ UNCHANGED <<followers, changes, reverse, before, reportStore>>
    /\ UNCHANGED notCycle

\* main, line 275: save_compare_report.  With changes None the assignment
\* report["screen_name"] = ... raises TypeError inside the try: it is logged
\* and False returned, the file untouched.  Otherwise the report is written,
\* or the write fails and the file is left as it was or broken.
CycleSaveReport ==
    /\ dpc = "report"
    /\ IF changes.none
          THEN reportStore' = reportStore
          ELSE \E written \in BOOLEAN :
                  \E left \in {reportStore, BrokenReport} :
                     reportStore' = IF written THEN NewReport(changes)
                                               ELSE left
    /\ dpc' = "list"
    /\ UNCHANGED <<followers, snapshot, changes, reverse, before, replaced>>
    /\ UNCHANGED notCycle

\* main, lines 277-279: without --status changes["added"] is listed, which
\* raises TypeError when changes is None; then the turn is over.
CycleList ==
    /\ dpc = "list"
    /\ \E status_option \in BOOLEAN :
          dpc' = IF ~status_option /\ changes.none THEN "raised" ELSE "done"
    /\ UNCHANGED <<followers, snapshot, changes, reverse>>
    /\ UNCHANGED cycleVars
    /\ UNCHANGED notCycle

NextCycle ==
    \/ CycleCompare
    \/ CycleSaveFollowers
    \/ CycleSaveReport
    \/ CycleList

\* ---------------------------------------------------------- specifications
\* Each specification runs one part of the programs; the state of the other
\* parts stays as it is before they start.
Idle ==
    /\ InitDiffIdle
    /\ InitTrackIdle
    /\ InitMakeIdle
    /\ InitRegIdle
    /\ InitFileIdle
    /\ InitPassIdle
    /\ InitRaceIdle
    /\ InitCycleIdle

Init == InitLock /\ InitNotify /\ InitMergeIdle /\ Idle

Next == NextLock

Spec == Init /\ [][Next]_vars

\* A step of Lock.lock of process p: a bind attempt, the listen that follows
\* a successful bind, the inquiry of the handler, the end of time.sleep(30).
LockStep(p) == TryBind(p) \/ Listen(p) \/ Connect(p) \/ Recv(p) \/ Sleep(p)

\* The process that has the port bound ends.
HolderEnds(p) == Holds(p) /\ Exit(p)

\* Scheduling: a process inside Lock.lock is not suspended forever (a runnable
\* process gets the processor, a sleep of 30 s ends), and a process that holds
\* the lock ends at some time.  A process that waits may be killed, but need
\* not be.
FairLock == \A p \in Procs : WF_vars(LockStep(p)) /\ WF_vars(HolderEnds(p))

SpecFair == Init /\ [][Next]_vars /\ FairLock

SpecNotify == Init /\ [][NextNotify]_vars

InitM == InitLock /\ InitNotify /\ InitMerge /\ Idle

SpecMerge == InitM /\ [][NextMerge]_vars

InitD ==
    /\ InitLock /\ InitNotify /\ InitMergeIdle
    /\ InitDiff /\ InitTrackIdle /\ InitMakeIdle /\ InitRegIdle
    /\ InitFileIdle /\ InitPassIdle /\ InitRaceIdle /\ InitCycleIdle

SpecDiff == InitD /\ [][NextDiff]_vars

InitT ==
    /\ InitLock /\ InitNotify /\ InitMergeIdle
    /\ InitDiffIdle /\ InitTrack /\ InitMakeIdle /\ InitRegIdle
    /\ InitFileIdle /\ InitPassIdle /\ InitRaceIdle /\ InitCycleIdle

SpecTrack == InitT /\ [][NextTrack]_vars

InitK ==
    /\ InitLock /\ InitNotify /\ InitMergeIdle
    /\ InitDiffIdle /\ InitTrackIdle /\ InitMake /\ InitRegIdle
    /\ InitFileIdle /\ InitPassIdle /\ InitRaceIdle /\ InitCycleIdle

SpecMake == InitK /\ [][NextMake]_vars

InitR ==
    /\ InitLock /\ InitNotify /\ InitMergeIdle
    /\ InitDiffIdle /\ InitTrackIdle /\ InitMakeIdle /\ InitReg
    /\ InitFileIdle /\ InitPassIdle /\ InitRaceIdle /\ InitCycleIdle

SpecReg == InitR /\ [][NextReg]_vars

SpecReenter == Init /\ [][NextReenter]_vars

SpecFile == Init /\ [][NextFile]_vars

SpecPass == Init /\ [][NextPass]_vars

SpecRace == Init /\ [][NextRace]_vars

InitC ==
    /\ InitLock /\ InitNotify /\ InitMergeIdle
    /\ InitDiff /\ InitTrackIdle /\ InitMakeIdle /\ InitRegIdle
    /\ InitFileIdle /\ InitPassIdle /\ InitRaceIdle /\ InitCycle

SpecCycle == InitC /\ [][NextCycle]_vars

InitF ==
    /\ InitLock /\ InitNotify /\ InitMergeIdle
    /\ InitDiffIdle /\ InitTrackIdle /\ InitMakeIdle /\ InitFresh
    /\ InitFileIdle /\ InitPassIdle /\ InitRaceIdle /\ InitCycleIdle

SpecFresh == InitF /\ [][NextFresh]_vars

\* ======================================================== claims, lock.py
\* lock() has returned True in h: its socket is bound and answers inquiries
HeldBy(h) == h \in bound /\ h \in listening

\* C1: in every reachable state at most one process has the coordination
\* endpoint bound, whatever the number of processes and their wait modes.
MutualExclusion == Cardinality(bound) <= 1

\* C1 witness: one process holds the lock while another one, having failed
\* to bind, is waiting for its next attempt or has given up.
MutualExclusionWitness ==
    \E p, q \in Procs :
        /\ p # q
        /\ HeldBy(p)
        /\ pc[q] = "sleep" \/ outcome[q] = "Locked"

\* One step of a non-waiting acquire by q taken while some other process h
\* holds the lock: the bind fails, the inquiry connects to h, and the answer
\* ends the call with the Locked error that names h.
LockedStep(q) ==
    /\ (pc[q] = "bind" /\ pc'[q] \notin {"bind", "exited"}
          /\ \E h \in Procs \ {q} : HeldBy(h))
       => (pc'[q] = "connect" /\ q \notin bound')
    /\ (pc[q] = "connect" /\ pc'[q] \notin {"connect", "exited"}
          /\ \E h \in Procs \ {q} : HeldBy(h))
       => (pc'[q] = "recv" /\ HeldBy(conn'[q]))
    /\ (pc[q] = "recv" /\ pc'[q] \notin {"recv", "exited"} /\ HeldBy(conn[q]))
       => /\ pc'[q] = "raised"
          /\ outcome'[q] = "Locked"
          /\ lock_owner'[q] = [process_name |-> process_name[conn[q]],
                               pid |-> getpid(conn[q])]
          /\ conn[q] # q
          /\ q \notin bound'

\* C2: while P holds the lock with description d and pid p, an acquire with
\* wait = false by Q does not acquire, does not retry, and fails with a
\* Locked error that reports exactly {d, p}.
LockedReportsHolder ==
    /\ [][\A q \in Procs : (kind[q] = "client" /\ ~wait[q]) => LockedStep(q)]_vars
    /\ [](\A q \in Procs :
            outcome[q] = "Locked"
               => /\ ~retried[q]
                  /\ ~Holds(q)
                  /\ pc[q] \in {"raised", "exited"})

\* C2 witness: the holder ("tracker", pid 1234) has been reported to a
\* non-waiting process, whose acquire failed with Locked.
LockedReportsHolderWitness ==
    \E q \in Procs :
        /\ outcome[q] = "Locked"
        /\ ~wait[q]
        /\ lock_owner[q] = [process_name |-> "tracker", pid |-> 1234]
        /\ HeldBy(1)
        /\ process_name[1] = "tracker"

\* C3: an acquire with wait = true never ends with an error; it returns only
\* with the lock acquired.
WaitingAcquireNeverFails ==
    \A p \in Procs : wait[p] => outcome[p] \in {"none", "acquired"}

\* C4: the lock is released by the termination of its holder and by nothing
\* else: when the holder terminates the endpoint is free, a bind attempt on
\* the free endpoint succeeds, and a live holder keeps the endpoint.
ReleasedOnlyByExit ==
    [][\A p \in Procs :
          /\ (Holds(p) /\ pc'[p] = "exited") => bound' = {}
          /\ (Holds(p) /\ pc'[p] # "exited") => Holds(p)'
          /\ (pc[p] = "bind" /\ pc'[p] \notin {"bind", "exited"} /\ bound = {})
                => (Holds(p)' /\ pc'[p] = "listen")]_vars

\* C4 witness: a holder has terminated and a process that had been waiting
\* for it now holds the lock.
ReleasedOnlyByExitWitness ==
    \E p, q \in Procs :
        /\ pc[p] = "exited"
        /\ outcome[p] = "acquired"
        /\ HeldBy(q)
        /\ retried[q]

\* C5: every load or save of the registry file or of a follower-snapshot file
\* is made by a process that holds the lock at that moment.
FileAccessUnderLock ==
    lastIO # NoIO => lastIO.who \in lastIO.holders

\* ============================================== claims, trackingreport.py
\* C6: two notification passes against a report whose generated-at timestamp
\* has not changed deliver at most one message for the subscriber.
GateIdempotence == \A s \in Subs : sent[s] <= 1

\* A step that is the turn of the loop of main for client s
TurnStep(s) == rpc = "loop" /\ idx = s /\ (idx' # idx \/ rpc' # rpc)

\* C7: should_send(S, g) is true iff the gate has no entry for S or its entry
\* is strictly earlier than g; with entry t it is false for t and true for
\* t + 1; and the pass sends or suppresses accordingly.
ShouldSendIffNewer ==
    /\ [](\A s \in Subs :
            /\ \A g \in Seconds :
                  is_new_report(g, s)
                     <=> (s \notin DOMAIN last_report \/ last_report[s] < g)
            /\ s \in DOMAIN last_report
                  => /\ ~is_new_report(last_report[s], s)
                     /\ is_new_report(last_report[s] + 1, s))
    /\ [][\A s \in Subs :
            TurnStep(s)
               => /\ send_result' = "suppressed"
                     => (s \in DOMAIN last_report
                           /\ last_report[s] >= reportFile[s].generated)
                  /\ send_result' \in {"sent", "failed", "notweet"}
                     => (s \notin DOMAIN last_report
                           \/ last_report[s] < reportFile[s].generated)
                  /\ (reportFile[s] # NoReport /\ report(reportFile[s]))
                     => send_result' \in {"suppressed", "sent", "failed",
                                          "notweet"}]_vars

\* The client the latest turn of the loop was for
Turn == IF idx = 1 THEN NumSubs ELSE idx - 1

\* C7 witness: a pass has suppressed a report that an earlier pass had sent:
\* the gate entry is the very second the report was generated in.
ShouldSendIffNewerWitness ==
    /\ rpc \in {"loop", "save"}
    /\ send_result = "suppressed"
    /\ sent[Turn] = 1
    /\ Turn \in DOMAIN last_report
    /\ last_report[Turn] = reportFile[Turn].generated

\* last_report.get(s): the gate entry of client s, -1 when there is none
Entry(d, s) == IF s \in DOMAIN d THEN d[s] ELSE -1

\* C8: a failed delivery leaves the gate entry of the subscriber as it was
\* and the report still to be sent; within a pass the entry of a subscriber
\* changes only by a successful delivery to that subscriber, and the gate
\* file changes only by saving those entries.
FailedDeliveryKeepsGate ==
    [][\A s \in Subs :
          /\ (send_result' = "failed" /\ TurnStep(s))
                => /\ last_report' = last_report
                   /\ gateFile' = gateFile
                   /\ is_new_report(reportFile[s].generated, s)'
          /\ (rpc # "idle" /\ rpc' # "idle"
                /\ Entry(last_report', s) # Entry(last_report, s))
                => /\ send_result' = "sent"
                   /\ idx = s
                   /\ Entry(last_report', s) = strftime(now)
          /\ (Entry(gateFile', s) # Entry(gateFile, s))
                => /\ rpc = "save"
                   /\ gateFile' = last_report]_vars

\* C8 witness: a delivery has failed for a client with no gate entry, in a
\* pass that goes on, and its report is still new.
FailedDeliveryKeepsGateWitness ==
    /\ send_result = "failed"
    /\ rpc \in {"loop", "save"}
    /\ Turn \notin DOMAIN last_report
    /\ reportFile[Turn] # NoReport
    /\ is_new_report(reportFile[Turn].generated, Turn)

\* ================================================= claims, clients_db.py
\* C9: merge(current, discovered) returns a mapping whose keys are exactly
\* the keys of discovered, a key of both with current's record, a key of
\* discovered alone with discovered's record.
MergeKeepsDiscovered ==
    mpc # "start"
       => /\ ~merged.raised
          /\ Keys(merged.d) = Keys(new_clients)
          /\ \A k \in Keys(new_clients) :
                merged.d[Get(merged.d, k)].value =
                   IF k \in Keys(clients)
                      THEN clients[Get(clients, k)].value
                      ELSE new_clients[Get(new_clients, k)].value

\* C10: merge(merge(A, B), B) equals merge(A, B), whenever merge(A, B)
\* returns at all.
MergeIdempotent ==
    (mpc = "remerged" /\ ~merged.raised)
       => /\ ~remerged.raised
          /\ Items(remerged.d) = Items(merged.d)

\* C11: for every current follower list and every previous snapshot that
\* loads (a saved list or no file, which loads as the empty list), the
\* comparison gives added = current \ previous and deleted = previous \
\* current, each id once; so equal lists give two empty parts.
DiffIsSetDifference ==
    (dpc # "start" /\ snapshot.state \in {"ok", "missing"})
        => LET current == Elements(followers)
               previous == Elements(snapshot.ids)
           IN /\ ~changes.none
              /\ Elements(changes.added) = current \ previous
              /\ Elements(changes.deleted) = previous \ current
              /\ Len(changes.added) = Cardinality(current \ previous)
              /\ Len(changes.deleted) = Cardinality(previous \ current)
              /\ (current = previous
                    => changes.added = <<>> /\ changes.deleted = <<>>)

DiffIsSetDifferenceWitness ==
    /\ dpc = "compared"
    /\ snapshot = Saved(<<1, 2, 3>>)
    /\ followers = <<2, 3, 4>>
    /\ changes = [none |-> FALSE, added |-> <<4>>, deleted |-> <<1>>]

\* C12: the comparison of X with Y and the comparison of Y with X mirror each
\* other: what one reports as added the other reports as deleted.
DiffSymmetry ==
    dpc = "reversed"
        => /\ ~changes.none /\ ~reverse.none
           /\ changes.added = reverse.deleted
           /\ changes.deleted = reverse.added

DiffSymmetryWitness ==
    /\ dpc = "reversed"
    /\ changes.added # <<>>
    /\ changes.deleted # <<>>
    /\ Elements(followers) \cap Elements(snapshot.ids) # {}

\* C13: with no snapshot file load_followers returns the empty list and every
\* current follower is reported as added; with a snapshot file that cannot be
\* read load_followers returns None and so does compare_followers.
AbsenceIsNotFailure ==
    dpc # "start"
        => /\ snapshot = Missing
                => /\ load_followers(snapshot) = Some(<<>>)
                   /\ changes = [none |-> FALSE, added |-> followers,
                                 deleted |-> <<>>]
           /\ snapshot = Corrupt
                => /\ load_followers(snapshot) = None
                   /\ changes.none
                   /\ changes.added = <<>>

AbsenceIsNotFailureWitness ==
    /\ dpc = "compared"
    /\ snapshot = Corrupt
    /\ followers # <<>>
    /\ changes.none

\* C14: in the detection run a client whose snapshot is corrupt (the
\* comparison gives None) or whose snapshot or report cannot be saved does
\* not end the run: no exception leaves the loop of main, and a run that has
\* ended has gone through every client.
DetectionFailuresIsolated ==
    /\ tpc # "raised"
    /\ tpc = "done" => processed = Elements(tclients)

\* C15: whatever the template and the vocabulary, also one with a word that
\* holds a placeholder, make performs at most substitution_max substitutions.
SubstitutionCeiling == substitution_count <= substitution_max

\* The placeholders of a string read from the left: each begins at the
\* leftmost opening delimiter and ends at the first closing delimiter after it.
HasOpen(str) == \E i \in 1..(Len(str) - 1) : Slice(str, i - 1, i + 1) = Open

HasClose(str) == \E i \in 1..(Len(str) - 1) : Slice(str, i - 1, i + 1) = Close

RECURSIVE PlaceholderKeywords(_)
PlaceholderKeywords(str) ==
    LET o == find(str, Open, 0)
        c == find(str, Close, o + 2)
    IN IF o = -1 \/ c = -1 THEN {}
       ELSE {Slice(str, o + 2, c)}
                \cup PlaceholderKeywords(Slice(str, c + 2, Len(str)))

\* Every delimiter of the string belongs to a placeholder: opening and
\* closing delimiters alternate, beginning with an opening one.
RECURSIVE Balanced(_)
Balanced(str) ==
    LET o == find(str, Open, 0)
        c == find(str, Close, o + 2)
    IN IF o = -1 THEN ~HasClose(str)
       ELSE /\ c # -1
            /\ ~HasClose(Slice(str, 0, o))
            /\ ~HasOpen(Slice(str, o + 2, c))
            /\ Balanced(Slice(str, c + 2, Len(str)))

NonCyclic(vocab) ==
    \A k \in DOMAIN vocab : \A entry \in vocab[k] :
        \A i \in DOMAIN entry.words : ~HasOpen(entry.words[i])

\* The words a vocabulary list offers for a quantity
WordsFor(vocab, k, qty) ==
    {IF entry.list THEN entry.words[IF qty = 1 THEN 1 ELSE 2]
                   ELSE entry.words[1] : entry \in vocab[k]}

\* The strings a balanced string becomes when every placeholder is replaced
\* by one of the words of its keyword
RECURSIVE Expansions(_, _, _)
Expansions(str, vocab, qty) ==
    LET o == find(str, Open, 0)
        c == find(str, Close, o + 2)
    IN IF o = -1 THEN {str}
       ELSE {Slice(str, 0, o) \o w \o rest :
                w \in WordsFor(vocab, Slice(str, o + 2, c), qty),
                rest \in Expansions(Slice(str, c + 2, Len(str)), vocab, qty)}

WellFormed ==
    /\ Balanced(template)
    /\ PlaceholderKeywords(template) \subseteq DOMAIN vocabulary
    /\ NonCyclic(vocabulary)

RECURSIVE CountOpen(_)
CountOpen(str) ==
    LET o == find(str, Open, 0)
    IN IF o = -1 THEN 0 ELSE 1 + CountOpen(Slice(str, o + 2, Len(str)))

LeftmostMissing(str, vocab) ==
    LET o == find(str, Open, 0)
        c == find(str, Close, o + 2)
    IN /\ o # -1
       /\ c # -1
       /\ Slice(str, o + 2, c) \notin DOMAIN vocab

\* C17: when the keyword of the leftmost placeholder still in the string has
\* no entry in the vocabulary, the turn of the loop that meets it raises
\* KeyError and make returns no string; a string that make returns holds no
\* placeholder with a keyword the vocabulary lacks.
MissingKeywordRaises ==
    [][/\ (kpc = "loop" /\ LeftmostMissing(result, vocabulary))
            => kpc' = "KeyError"
       /\ kpc' = "returned"
            => PlaceholderKeywords(result') \subseteq DOMAIN vocabulary]_vars

MissingKeywordRaisesWitness ==
    /\ kpc = "KeyError"
    /\ template = Open \o <<"A">> \o Close \o Open \o Close
    /\ result = <<"x">> \o Open \o Close
    /\ substitution_count = 1

\* Some opening delimiter of the string has no closing delimiter after it.
UnmatchedOpen(str) ==
    \E i \in 0..(Len(str) - 2) :
        /\ Slice(str, i, i + 2) = Open
        /\ find(str, Close, i + 2) = -1

\* C18: for a template with an opening delimiter that no closing delimiter
\* follows, wherever its other delimiters are, make raises nothing (the
\* keywords of the placeholders the template does have being in the
\* vocabulary).
UnmatchedOpenReturns ==
    (/\ UnmatchedOpen(template)
     /\ PlaceholderKeywords(template) \subseteq DOMAIN vocabulary)
        => kpc # "KeyError"

\* C19: load_clients never fails its caller: with no clients.json, and with a
\* clients.json that is there but is not a registry (not JSON, or JSON
\* without the registry), it raises nothing and returns the empty mapping.
LoadNeverFails ==
    gpc # "start"
        => /\ client_db.raised = "none"
           /\ clientFile.kind # "registry" => client_db.clients = <<>>

\* The day an instant lies in
DayOf(instant) == instant \div TicksPerDay

\* C20: active_clients returns exactly the screen names whose record has
\* active true and a subscription_ends date that is today or later; a client
\* whose subscription ends today is still returned, one whose subscription
\* ended yesterday is not.
ActiveIffFlagAndNotExpired ==
    gpc = "filtered"
        => \A screen_name \in DOMAIN client_db.clients :
              LET client == client_db.clients[screen_name]
              IN client.subscription_ends # BadDate
                    => (screen_name \in active
                          <=> /\ client.active
                              /\ client.subscription_ends >= DayOf(today))

\* C21: a client whose record has active true and a subscription_ends value
\* that strptime cannot parse is among the active clients that
\* active_clients returns (subscription_ended catches the error of strptime
\* and answers False).
UnparseableDateStaysActive ==
    gpc = "filtered"
        => \A screen_name \in DOMAIN client_db.clients :
              LET client == client_db.clients[screen_name]
              IN (client.active /\ client.subscription_ends = BadDate)
                    => screen_name \in active

UnparseableDateStaysActiveWitness ==
    /\ gpc = "filtered"
    /\ \E screen_name \in DOMAIN client_db.clients :
          /\ client_db.clients[screen_name].active
          /\ client_db.clients[screen_name].subscription_ends = BadDate
          /\ screen_name \in active
    /\ \E screen_name \in DOMAIN client_db.clients :
          screen_name \notin active

\* C22: a process that reads the registry file or a report file while
\* another process saves it finds the whole previous text or the whole new
\* text, never an empty or partly written file.
ReadsSeeWholeFiles ==
    \A f \in Files : seen[f].state \in {"unread", "complete"}

\* C23 as stated: the notification pass does not acquire the lock; it runs
\* whoever holds the lock and keeps nobody from acquiring it.
ReporterTakesNoLock ==
    \A p \in Procs : kind[p] = "reporter" => ~Holds(p)

\* C23, amended: the notification pass acquires the lock, waiting for it,
\* before it loads the registry; from its load of the registry to the end of
\* its process it is the one holder of the lock, so no other process
\* acquires the lock while the pass runs.
ReporterRunsUnderLock ==
    \A p \in Procs :
        (kind[p] = "reporter" /\ pc[p] \in {"load_clients", "pass", "done"})
            => /\ bound = {p}
               /\ p \in listening
               /\ wait[p]
               /\ outcome[p] = "acquired"

ReporterRunsUnderLockWitness ==
    \E p, q \in Procs :
        /\ kind[p] = "reporter"
        /\ pc[p] = "pass"
        /\ q # p
        /\ pc[q] = "sleep"
        /\ lock_owner[q] = monitor(p)

\* The order of the file operations of one turn of the detection loop
TurnOrder == <<"load", "diff", "save_snapshot", "save_report">>

ActiveTracked(registry) ==
    {registry.clients[i].screen_name :
        i \in {k \in DOMAIN registry.clients :
                  /\ registry.clients[k].active
                  /\ ~subscription_ended(
                         registry.clients[k].subscription_ends, TrackNow)}}

\* C25: the detection run fetches followers and writes a snapshot and a
\* report only for clients that are active and not expired in the registry
\* it loaded.
DetectionOnlyForActive ==
    tregistry.form = "list" => fetched \subseteq ActiveTracked(tregistry)

\* C26: in the notification pass a report file that is missing or cannot be
\* read, a KeyError of the phrase maker or a failed delivery ends only the
\* turn of that client: no exception leaves the loop, every client gets its
\* turn and save_last_report_time is called at the end of the pass.
PassFailuresIsolated ==
    /\ ppc # "raised"
    /\ ppc = "loop" => Len(happened) = pcur - 1
    /\ ppc \in {"save", "done"} => Len(happened) = NumNotified
    /\ ppc = "done" => gate \in {"saved", "failed"}

PassFailuresIsolatedWitness ==
    /\ ppc = "done"
    /\ happened[1] = "KeyError"
    /\ happened[NumNotified] = "sent"
    /\ gate = "saved"

\* A process that holds the lock is inside a further call of lock()
Reentering(p) ==
    /\ Holds(p)
    /\ pc[p] \in {"bind", "connect", "recv", "sleep", "raised"}

\* C27: a process that holds the lock and calls lock() again never succeeds
\* in that call: its bind fails; with wait false the call ends with the
\* Locked error, with wait true it stays in the loop of lock() for as long
\* as the process keeps its first hold.
NoReentrancy ==
    /\ [][\A p \in Procs :
            (Holds(p) /\ pc[p] = "bind" /\ pc'[p] # pc[p])
                => pc'[p] = "connect" \/ pc'[p] = "exited"]_vars
    /\ [](\A p \in Procs :
            Reentering(p)
               => /\ outcome[p] # "acquired"
                  /\ bound = {p}
                  /\ pc[p] = "raised"
                        => ~wait[p] /\ outcome[p] = "Locked"
                  /\ (~wait[p] /\ pc[p] = "sleep") => FALSE)

NoReentrancyWitness ==
    \E p \in Procs :
        /\ Reentering(p)
        /\ wait[p]
        /\ pc[p] = "sleep"
        /\ retried[p]
        /\ lock_owner[p] = monitor(p)


\* C28: a turn of the notification loop for a report file that lists no
\* additions and no deletions prepares nothing to send: no message is
\* delivered or attempted, and the client's delivery gate entry, in memory
\* and on disk, is left as it was.
EmptyReportSendsNothing ==
    [][\A s \in Subs :
          (/\ TurnStep(s)
           /\ reportFile[s] # NoReport
           /\ ~reportFile[s].added
           /\ ~reportFile[s].deleted)
             => /\ send_result' = "nothing"
                /\ sent' = sent
                /\ last_report' = last_report
                /\ gateFile' = gateFile]_vars

\* C28 witness: the latest turn read a report with both lists empty, for a
\* client that has a gate entry from an earlier delivery.
EmptyReportSendsNothingWitness ==
    /\ rpc \in {"loop", "save"}
    /\ send_result = "nothing"
    /\ reportFile[Turn] # NoReport
    /\ ~reportFile[Turn].added
    /\ ~reportFile[Turn].deleted
    /\ Turn \in DOMAIN last_report

\* C29: update_client_list of the client finder loads the registry once,
\* merges once, saves once and returns to main with the flag of the save: the
\* step that follows its merge is its return, never another load of the
\* registry and never an exception.
UpdateClientListReturns ==
    [][\A p \in Procs :
          (/\ kind[p] = "finder"
           /\ pc[p] = "merge_clients"
           /\ pc'[p] # pc[p])
             => pc'[p] = "done"]_vars

\* C30: a process that is blocked in an acquire with wait = true, while no
\* other process is inside an acquire or still to start, comes to hold the
\* lock, given that every holder ends and scheduling is fair; only a waiter
\* that is killed while it waits is excused.
WaitingAcquireSucceeds ==
    \A p \in Procs :
        (/\ wait[p]
         /\ pc[p] = "sleep"
         /\ \A q \in Procs \ {p} :
               pc[q] \notin {"init", "bind", "connect", "recv", "sleep"})
           ~> (Holds(p) \/ (pc[p] = "exited" /\ outcome[p] = "none"))

\* C31: no notification is lost.  A report that lists additions or deletions
\* and that no newer report has replaced is delivered by some pass; since the
\* gate entry of a client never moves back, a pass that suppresses a report
\* suppresses it for good, so a turn that has read the report now on disk,
\* for which no DM was delivered, must not suppress it.
NoLostNotification ==
    [][\A s \in Subs :
          (/\ rpc = "read"
           /\ idx = s
           /\ rpc' # "read"
           /\ report(report_data)
           /\ ~fresh[s]
           /\ ~delivered[s])
             => send_result' # "suppressed"]_vars

\* C32: snapshot and report stay in step.  When a turn of the detection loop
\* has replaced the client's snapshot, the report file holds the report of
\* that turn, and its lists are the difference between the snapshot the turn
\* found and the snapshot it left.
SnapshotAndReportInStep ==
    (dpc \in {"list", "done", "raised"} /\ replaced)
        => /\ reportStore.from = "turn"
           /\ reportStore.added = NotIn(snapshot.ids, before.ids)
           /\ reportStore.deleted = NotIn(before.ids, snapshot.ids)

\* C33: the records search makes for new followers carry the active flag and
\* the expiration date under the names active_clients reads, so
\* active_clients over a registry that holds such records raises nothing
\* and returns their screen names.
DiscoveredClientsAreActive ==
    gpc \in {"filtered", "raised"}
        => /\ gpc = "filtered"
           /\ \A n \in DOMAIN client_db.clients :
                 LET client == client_db.clients[n]
                 IN "screen_name" \in DOMAIN client
                       => /\ {"active", "subscription_ends"}
                                \subseteq DOMAIN client
                          /\ n \in active


====
